---- MODULE Spec2Model ----
(***************************************************************************)
(* bevy_mod_sysfail: failure-policy dispatch and error deduplication.      *)
(*                                                                         *)
(* The repository holds three generations of the wrapper:                  *)
(*   - macros_impl/src/lib.rs      ChainStyle (handler_body, impl_sysfail) *)
(*   - macros_impl/src/generate.rs FnConfig / sysfail_inner / log_error,   *)
(*     with src/lib.rs Failure::get_error as its runtime                   *)
(*   - src/{log,log_simple,emit,ignore,dedup}.rs: the Failure types with   *)
(*     Param / LEVEL / handle_error                                        *)
(* A wrapped unit (a Bevy system) is one of these; the scheduler invokes   *)
(* the systems of the app and advances the clock between frames.           *)
(*                                                                         *)
(* Durations are counted in ticks of 100 ms.                               *)
(***************************************************************************)
EXTENDS Integers, Sequences, FiniteSets, TLC

VARIABLES
    app,      \* the systems registered in the App and the sink's LevelFilter
    now,      \* Time::elapsed() / Time::raw_elapsed()
    logged,   \* per Local: HashMap<ID, Duration> (LoggedErrors)
    sink,     \* events dispatched to the logging sink, in order
    events,   \* Events<E>: what EventWriter::send appended, in order
    crashed,  \* a system panicked: the app is gone
    trace,    \* history: one record per invocation of a wrapped unit
    macro     \* an attribute macro being expanded: its input, FnConfig, outcome

vars == <<app, now, logged, sink, events, crashed, trace, macro>>

----------------------------------------------------------------------------
(* Bounds of the model *)

MaxCalls == 3
MaxTime == 12
\* meta items in one attribute
MaxMetas == 2
\* stands for Duration::MAX: Duration + Duration panics above it
DurationMax == 40
\* frame deltas the scheduler advances the clock by (500 ms, 700 ms)
FrameDeltas == {5, 7}

(* Program constants *)

\* Duration::from_secs(1), in ticks
DefaultCooldown == 10

----------------------------------------------------------------------------
(* Option<T> *)

None == [some |-> FALSE]
Some(v) == [some |-> TRUE, val |-> v]

(* HashMap<K, V>: a function whose domain is the key set *)

EmptyMap == [k \in {} |-> 0]
HashMap_get(m, k) == IF k \in DOMAIN m THEN Some(m[k]) ELSE None
HashMap_put(m, k, v) == [x \in (DOMAIN m) \cup {k} |-> IF x = k THEN v ELSE m[x]]

\* Duration::saturating_sub
saturating_sub(a, b) == IF a >= b THEN a - b ELSE 0
\* impl Add for Duration: checked_add(..).expect("overflow when adding durations")
AddOverflows(a, b) == a + b > DurationMax

----------------------------------------------------------------------------
(* Error values *)

UnitId == "()"
NoneMsg == "A none value"

StrErr(m) == [ty |-> "str", msg |-> m]
BoxErr(m) == [ty |-> "boxed", msg |-> m]
\* a user type with its own identify() and its own cooldown()
UserErr(m, c) == [ty |-> "user", msg |-> m, cd |-> c]

ErrX == StrErr("X")
ErrY == StrErr("Y")
\* two Box<dyn Error> values with different messages
ErrIo == BoxErr("io")
ErrParse == BoxErr("parse")
ErrZero == UserErr("Zero", 0)
ErrOnce == UserErr("Once", DurationMax)

\* fmt::Display of the error ("{error}", format_args!("{}", self.0))
Display(e) == e.msg

Ok == [tag |-> "Ok"]
Err(e) == [tag |-> "Err", err |-> e]
SomeUnit == [tag |-> "Some"]
NoneUnit == [tag |-> "None"]

----------------------------------------------------------------------------
(* FailureMode (src/lib.rs) and Dedup (src/dedup.rs) *)

\* fn cooldown(&self) -> Duration { Duration::from_secs(1) }, unless overridden
FailureMode_cooldown(e) == IF e.ty = "user" THEN e.cd ELSE DefaultCooldown

\* opaque errors told apart by their message (mutation of FailureMode_identify)
FailureMode_identify_message(e) ==
    CASE e.ty = "str" -> e.msg
      [] e.ty = "boxed" -> e.msg
      [] e.ty = "unit" -> UnitId
      [] e.ty = "user" -> e.msg

\* &'static str: self; Box<dyn Error>, anyhow::Error, (): the unit value
FailureMode_identify(e) ==
    CASE e.ty = "str" -> e.msg
      [] e.ty = "boxed" -> UnitId
      [] e.ty = "unit" -> UnitId
      [] e.ty = "user" -> e.msg

Dedup_cooldown(e) == IF e.ty = "user" THEN e.cd ELSE DefaultCooldown

Dedup_identify(e) ==
    CASE e.ty = "str" -> e.msg
      [] e.ty = "boxed" -> UnitId
      [] e.ty = "user" -> e.msg

(* Failure (src/lib.rs): Result<(), T> and Option<()> *)

Result_failure(self) == IF self.tag = "Err" THEN Some(self.err) ELSE None

\* the absence carries an empty message (mutation of Option_failure)
Option_failure_empty(self) == Some(StrErr(""))

\* fn failure(self) -> Option<Self::Error> { Some("A none value") }
Option_failure(self) == Some(StrErr(NoneMsg))

Failure_failure(self) ==
    IF self.tag \in {"Ok", "Err"} THEN Result_failure(self) ELSE Option_failure(self)

\* get_error with one timestamp for all identities (mutation of get_error)
get_error_one_slot(self, time, logged_errors) ==
    LET failure == Failure_failure(self) IN
    IF ~failure.some
    THEN [ret |-> None, logged |-> logged_errors, panic |-> FALSE, ops |-> 0]
    ELSE LET error == failure.val
             cooldown == FailureMode_cooldown(error)
             last_shown == HashMap_get(logged_errors, UnitId)
             overflow == last_shown.some /\ AddOverflows(last_shown.val, cooldown)
             should_log == IF last_shown.some THEN time < last_shown.val + cooldown
                           ELSE TRUE
         IN [ret |-> IF should_log /\ ~overflow THEN Some(error) ELSE None,
             logged |-> HashMap_put(logged_errors, UnitId, time),
             panic |-> overflow, ops |-> 1]

\* Failure::get_error(self, time, logged_errors): the error if it is ready to
\* be logged, the updated LoggedErrors, and whether `d + cooldown` panicked
get_error(self, time, logged_errors) ==
    LET failure == Failure_failure(self) IN
    IF ~failure.some
    THEN [ret |-> None, logged |-> logged_errors, panic |-> FALSE, ops |-> 0]
    ELSE LET error == failure.val
             cooldown == FailureMode_cooldown(error)
             last_shown == HashMap_get(logged_errors, FailureMode_identify(error))
             inserted == HashMap_put(logged_errors, FailureMode_identify(error), time)
             overflow == last_shown.some /\ AddOverflows(last_shown.val, cooldown)
             should_log == IF last_shown.some THEN time < last_shown.val + cooldown
                           ELSE TRUE
         IN [ret |-> IF should_log /\ ~overflow THEN Some(error) ELSE None,
             logged |-> inserted, panic |-> overflow, ops |-> 1]

----------------------------------------------------------------------------
(* generate.rs: the code sysfail_inner generates from a FnConfig *)

\* only Quick goes without the extra parameters (mutation of extra_params)
extra_params_quick_only(level) ==
    IF level = "Quick" THEN {} ELSE {"TimeParam", "LoggedErrorsParam"}

\* extra_params is requested unless the level is Quick or Silent
extra_params(level) ==
    IF level \in {"Quick", "Silent"} THEN {} ELSE {"TimeParam", "LoggedErrorsParam"}

\* only Silent discards the result (mutation of log_error)
log_error_quick_logged(level, result, time, logged_errors) ==
    IF level = "Silent"
    THEN [logged |-> logged_errors, out |-> <<>>, panic |-> FALSE, ops |-> 0,
          handed |-> None]
    ELSE LET got == get_error(result, time, logged_errors) IN
         [logged |-> got.logged,
          out |-> IF got.ret.some
                  THEN <<[level |-> level, msg |-> Display(got.ret.val)]>>
                  ELSE <<>>,
          panic |-> got.panic, ops |-> got.ops,
          handed |-> Failure_failure(result)]

\* log_error(level): what the generated body does with `result`
log_error(level, result, time, logged_errors) ==
    IF level \in {"Silent", "Quick"}
    THEN \* let _ = result;
         [logged |-> logged_errors, out |-> <<>>, panic |-> FALSE, ops |-> 0,
          handed |-> None]
    ELSE LET got == get_error(result, time, logged_errors) IN
         [logged |-> got.logged,
          out |-> IF got.ret.some
                  THEN <<[level |-> level, msg |-> Display(got.ret.val)]>>
                  ELSE <<>>,
          panic |-> got.panic, ops |-> got.ops,
          handed |-> Failure_failure(result)]

----------------------------------------------------------------------------
(* macros_impl/src/lib.rs: the code ChainStyle::impl_sysfail generates *)

IsSilentStyle(style) == style.kind = "Ignore" \/ style.set_level = Some("Silent")

handler_inputs(style) ==
    IF IsSilentStyle(style) THEN {} ELSE {"Local<HashMap>", "Res<Time>"}

\* the level-override suffix: .silent() .trace() ... or nothing
extra(style, error_level) ==
    IF style.set_level.some THEN style.set_level.val ELSE error_level

\* FailureMode::log: "by default this logs based on the return value of
\* FailureMode::log_level"
FailureMode_log(level, error) ==
    IF level = "Silent" THEN <<>> ELSE <<[level |-> level, msg |-> Display(error)]>>

\* &'static str, Box<dyn Error>, anyhow::Error: Warn; (): Silent
FailureMode_log_level(e) == IF e.ty = "unit" THEN "Silent" ELSE "Warn"

show_again(last_show, current, cooldown) ==
    last_show < saturating_sub(current, cooldown)

handler_body(style, result, current, last_occurences) ==
    IF IsSilentStyle(style)
    THEN \* let _ = result;
         [logged |-> last_occurences, out |-> <<>>, panic |-> FALSE, ops |-> 0,
          handed |-> None]
    ELSE LET failure == Failure_failure(result) IN
         IF ~failure.some
         THEN [logged |-> last_occurences, out |-> <<>>, panic |-> FALSE,
               ops |-> 0, handed |-> None]
         ELSE LET error == failure.val
                  error_id == FailureMode_identify(error)
                  last == HashMap_get(last_occurences, error_id)
                  show == IF last.some
                          THEN show_again(last.val, current, FailureMode_cooldown(error))
                          ELSE TRUE
              IN [logged |-> HashMap_put(last_occurences, error_id, current),
                  out |-> IF show
                          THEN FailureMode_log(extra(style, FailureMode_log_level(error)), error)
                          ELSE <<>>,
                  panic |-> FALSE, ops |-> 2, handed |-> failure]

----------------------------------------------------------------------------
(* Attribute input of the macros *)

\* a meta item: a path, and for `path(...)` the items between the parentheses
Word(p) == [path |-> p, list |-> None]
List(p, items) == [path |-> p, list |-> Some(items)]
\* a nested item `key = "value"`, or a bare `key`
NameValue(k, v) == [path |-> k, value |-> Some(v)]
Bare(k) == [path |-> k, value |-> None]

LevelWords == {"silent", "trace", "debug", "info", "warn", "error"}

(* generate.rs: FnConfig *)

Compiled(config) == [ok |-> TRUE, config |-> config, msg |-> ""]
CompileError(config, msg) == [ok |-> FALSE, config |-> config, msg |-> msg]

FnConfig_new == [level |-> "Error"]
FnConfig_quick == [level |-> "Quick"]

\* the MacroLogLevel parse_level sets for an identifier it accepts
MacroLogLevel(ident) ==
    CASE ident = "trace" -> "Trace"
      [] ident = "debug" -> "Debug"
      [] ident = "info" -> "Info"
      [] ident = "warn" -> "Warn"
      [] ident = "error" -> "Error"
      [] ident = "silent" -> "Silent"

\* the level is accepted and not recorded (mutation of parse_level)
parse_level_unrecorded(self, meta) ==
    IF meta.path # "level"
    THEN CompileError(self, "Only the 'level' attribute is supported for sysfail(log(...))")
    ELSE Compiled(self)

\* FnConfig::parse_level(&mut self, meta)
parse_level(self, meta) ==
    IF meta.path # "level"
    THEN CompileError(self, "Only the 'level' attribute is supported for sysfail(log(...))")
    ELSE IF ~meta.value.some
    THEN CompileError(self, "expected = after level")
    ELSE IF meta.value.val \in LevelWords
    THEN Compiled([self EXCEPT !.level = MacroLogLevel(meta.value.val)])
    ELSE CompileError(self, "invalid log level, available: silent, trace, debug, info, warn, error")

\* meta.parse_nested_meta(|meta| self.parse_level(meta)): every item between
\* the parentheses in turn, stopping at the first error
RECURSIVE parse_nested_meta(_, _, _)
parse_nested_meta(self, items, n) ==
    IF n = 0 THEN Compiled(self)
    ELSE LET before == parse_nested_meta(self, items, n - 1) IN
         IF ~before.ok THEN before ELSE parse_level(before.config, items[n])

\* FnConfig::parse(&mut self, meta)
FnConfig_parse(self, meta) ==
    IF meta.path = "log" /\ meta.list.some
    THEN parse_nested_meta(self, meta.list.val, Len(meta.list.val))
    ELSE IF meta.path = "log" THEN Compiled(self)
    ELSE IF meta.path = "ignore" THEN Compiled([self EXCEPT !.level = "Silent"])
    ELSE CompileError(self, "Only the 'log' and 'ignore' meta attributes are supported for sysfail")

QUICK_MSG == "quick_sysfail systems must have no return type, the macro adds Option<()>."
NO_RET_MSG == "sysfail systems must have a return type."

\* sysfail_inner(config, function): the wrapped unit, or a compile error
sysfail_inner(config, fn_ret) ==
    IF config.level = "Quick" /\ fn_ret # "none"
    THEN [kind |-> "error", msg |-> QUICK_MSG]
    ELSE LET output == IF config.level = "Quick" THEN "Option" ELSE fn_ret IN
         IF output = "none"
         THEN [kind |-> "error", msg |-> NO_RET_MSG]
         ELSE [kind |-> "expanded",
               unit |-> [wrapper |-> "gen", level |-> config.level, ret |-> output,
                         params |-> extra_params(config.level),
                         trailing |-> config.level = "Quick"]]

(* macros_impl/src/lib.rs: Sysfail, ChainStyle *)

\* darling's from_list for Sysfail { ignore: Option<()>, log: Option<Log> } with
\* Log { level: Option<Ident> }: unknown and repeated fields are errors, `log`
\* must be a list, `ignore` a word
Sysfail_from_list(attr) ==
    LET n == Len(attr)
        logs == {i \in 1..n : attr[i].path = "log"}
        ignores == {i \in 1..n : attr[i].path = "ignore"}
        fits(i) ==
            \/ attr[i].path = "ignore" /\ ~attr[i].list.some
            \/ /\ attr[i].path = "log" /\ attr[i].list.some
               /\ Len(attr[i].list.val) <= 1
               /\ \A k \in 1..Len(attr[i].list.val) :
                     attr[i].list.val[k].path = "level" /\ attr[i].list.val[k].value.some
        level(i) == IF Len(attr[i].list.val) = 1
                    THEN Some(attr[i].list.val[1].value.val) ELSE None
    IN IF (\A i \in 1..n : fits(i)) /\ Cardinality(logs) <= 1 /\ Cardinality(ignores) <= 1
       THEN [ok |-> TRUE,
             ignore |-> ignores # {},
             log |-> IF logs = {} THEN None
                     ELSE Some([level |-> level(CHOOSE i \in logs : TRUE)])]
       ELSE [ok |-> FALSE]

\* SysfailAlt { log: Option<()> }, converted into Sysfail
SysfailAlt_from_list(attr) ==
    IF /\ \A i \in 1..Len(attr) : attr[i].path = "log" /\ ~attr[i].list.some
       /\ Len(attr) <= 1
    THEN [ok |-> TRUE, ignore |-> FALSE,
          log |-> IF Len(attr) = 1 THEN Some([level |-> None]) ELSE None]
    ELSE [ok |-> FALSE]

\* Sysfail::from_args: Self::from_list(attr).or_else(word_log)
Sysfail_from_args(attr) ==
    IF Sysfail_from_list(attr).ok THEN Sysfail_from_list(attr)
    ELSE SysfailAlt_from_list(attr)

\* ChainStyle::from_ident; todo!() for any other identifier
from_ident(level) ==
    IF level \in LevelWords
    THEN [kind |-> "style", style |-> [kind |-> "Log", set_level |-> Some(MacroLogLevel(level))]]
    ELSE [kind |-> "panic", msg |-> "TODO: handle unsupported log level"]

\* Sysfail::chain_style
chain_style(self) ==
    CASE self.log.some /\ ~self.ignore ->
            IF self.log.val.level.some THEN from_ident(self.log.val.level.val)
            ELSE [kind |-> "style", style |-> [kind |-> "Log", set_level |-> None]]
      [] ~self.log.some /\ self.ignore ->
            [kind |-> "style", style |-> [kind |-> "Ignore", set_level |-> None]]
      [] ~self.log.some /\ ~self.ignore ->
            [kind |-> "panic", msg |-> "TODO: handle when no explicit chain style is selected"]
      [] self.log.some /\ self.ignore ->
            [kind |-> "panic", msg |-> "TODO: handle when too many explicit chain style is selected"]

\* ChainStyle::impl_sysfail(ast): the wrapped unit
impl_sysfail(style, fn_ret, trailing) ==
    [kind |-> "expanded",
     unit |-> [wrapper |-> "chain", style |-> style, ret |-> fn_ret,
               params |-> handler_inputs(style), trailing |-> trailing]]

\* #[sysfail(attr)] of macros_impl/src/lib.rs
chain_sysfail(attr, fn_ret) ==
    LET args == Sysfail_from_args(attr) IN
    IF ~args.ok THEN [kind |-> "panic", msg |-> "11"]
    ELSE LET cs == chain_style(args) IN
         IF cs.kind = "panic" THEN cs ELSE impl_sysfail(cs.style, fn_ret, FALSE)

\* #[quick_sysfail] of macros_impl/src/lib.rs: add_option, then Ignore
chain_quick_sysfail(fn_ret) ==
    impl_sysfail([kind |-> "Ignore", set_level |-> None], "Option", TRUE)

\* the attribute's items handed to FnConfig::parse one after the other, on a
\* FnConfig::new(); the first error ends the expansion
RECURSIVE FnConfig_parse_items(_, _)
FnConfig_parse_items(attr, n) ==
    IF n = 0 THEN Compiled(FnConfig_new)
    ELSE LET before == FnConfig_parse_items(attr, n - 1) IN
         IF ~before.ok THEN before ELSE FnConfig_parse(before.config, attr[n])

\* #[sysfail(attr)] of generate.rs: sysfail(config, input), Err => compile_error!
gen_sysfail(attr, fn_ret) ==
    LET parsed == FnConfig_parse_items(attr, Len(attr)) IN
    IF ~parsed.ok THEN [kind |-> "error", msg |-> parsed.msg]
    ELSE sysfail_inner(parsed.config, fn_ret)

\* #[quick_sysfail] of generate.rs
gen_quick_sysfail(fn_ret) == sysfail_inner(FnConfig_quick, fn_ret)

----------------------------------------------------------------------------
(* The Failure types: src/log.rs, src/log_simple.rs, src/emit.rs, src/ignore.rs *)

\* tracing's order of levels and filters: OFF < ERROR < WARN < INFO < DEBUG < TRACE
Verbosity(l) ==
    CASE l = "OFF" -> 0
      [] l = "Error" -> 1
      [] l = "Warn" -> 2
      [] l = "Info" -> 3
      [] l = "Debug" -> 4
      [] l = "Trace" -> 5

STATIC_MAX_LEVEL == "Trace"

\* Lvl::LEVEL <= STATIC_MAX_LEVEL && Lvl::LEVEL <= LevelFilter::current()
LevelEnabled(lvl, current) ==
    Verbosity(lvl) <= Verbosity(STATIC_MAX_LEVEL) /\ Verbosity(lvl) <= Verbosity(current)

\* type Param
Failure_Param(ft) ==
    CASE ft.kind = "Log" -> {"SRes<Time>", "Local<HashMap>"}
      [] ft.kind = "LogSimply" -> {}
      [] ft.kind = "Emit" -> {"EventWriter"}
      [] ft.kind = "Ignore" -> {}

\* impl From<T> for Log / LogSimply / Emit: Self(t.into(), ..); Ignore drops it
Failure_from(ft, e) == IF ft.kind = "Ignore" THEN [kind |-> "Ignore"] ELSE [kind |-> ft.kind, inner |-> e]

Log_handle_error(self, lvl, time, logged_map, callsite, filter) ==
    LET cooldown == Dedup_cooldown(self.inner)
        last_shown == HashMap_get(logged_map, Dedup_identify(self.inner))
        inserted == HashMap_put(logged_map, Dedup_identify(self.inner), time)
        overflow == last_shown.some /\ AddOverflows(last_shown.val, cooldown)
        should_log == IF last_shown.some THEN time < last_shown.val + cooldown
                      ELSE TRUE
        unwrap_none == ~overflow /\ should_log /\ ~callsite.some
    IN [logged |-> inserted,
        out |-> IF ~overflow /\ should_log /\ callsite.some /\ LevelEnabled(lvl, filter)
                THEN <<[level |-> lvl, msg |-> Display(self.inner)]>>
                ELSE <<>>,
        ev |-> <<>>, panic |-> overflow \/ unwrap_none, ops |-> 1]

\* the event is dispatched twice (mutation of LogSimply_handle_error)
LogSimply_handle_error_twice(self, lvl, callsite, filter) ==
    [out |-> IF callsite.some /\ LevelEnabled(lvl, filter)
             THEN <<[level |-> lvl, msg |-> Display(self.inner)],
                    [level |-> lvl, msg |-> Display(self.inner)]>>
             ELSE <<>>,
     ev |-> <<>>, panic |-> ~callsite.some, ops |-> 0]

LogSimply_handle_error(self, lvl, callsite, filter) ==
    [out |-> IF callsite.some /\ LevelEnabled(lvl, filter)
             THEN <<[level |-> lvl, msg |-> Display(self.inner)]>>
             ELSE <<>>,
     ev |-> <<>>, panic |-> ~callsite.some, ops |-> 0]

\* an event equal to one already sent is dropped (mutation of Emit_handle_error)
Emit_handle_error_dedup(self, event_writer) ==
    [out |-> <<>>,
     ev |-> IF \E k \in 1..Len(event_writer) : event_writer[k] = self.inner
            THEN <<>> ELSE <<self.inner>>,
     panic |-> FALSE, ops |-> 0]

\* event_writer.send(self.0)
Emit_handle_error(self, event_writer) ==
    [out |-> <<>>, ev |-> <<self.inner>>, panic |-> FALSE, ops |-> 0]

Ignore_handle_error(self) ==
    [out |-> <<>>, ev |-> <<>>, panic |-> FALSE, ops |-> 0]

\* dispatch on the Failure type of the unit
handle_error(ft, self, time, logged_map, event_writer, callsite, filter) ==
    CASE ft.kind = "Log" ->
            Log_handle_error(self, ft.lvl, time, logged_map, callsite, filter)
      [] ft.kind = "LogSimply" ->
            [logged |-> logged_map] @@ LogSimply_handle_error(self, ft.lvl, callsite, filter)
      [] ft.kind = "Emit" ->
            [logged |-> logged_map] @@ Emit_handle_error(self, event_writer)
      [] ft.kind = "Ignore" ->
            [logged |-> logged_map] @@ Ignore_handle_error(self)

----------------------------------------------------------------------------
(* The wrapped units *)

GenUnit(level, ret, errs) == [wrapper |-> "gen", level |-> level, ret |-> ret, errs |-> errs]
ChainUnit(style, ret, errs) == [wrapper |-> "chain", style |-> style, ret |-> ret, errs |-> errs]
FailureUnit(ft, errs) == [wrapper |-> "failure", ft |-> ft, ret |-> "Result", errs |-> errs]

StyleLog(set_level) == [kind |-> "Log", set_level |-> set_level]
StyleIgnore == [kind |-> "Ignore", set_level |-> None]

\* pub struct Log<T, Lvl = Warn>, pub struct LogSimply<T, Lvl = Warn>: the
\* Failure type named with or without its level parameter
Log(Lvl) == [kind |-> "Log", lvl |-> IF Lvl.some THEN Lvl.val ELSE "Warn"]
LogSimply(Lvl) == [kind |-> "LogSimply", lvl |-> IF Lvl.some THEN Lvl.val ELSE "Warn"]

\* the level parameter each Log / LogSimply unit names, if any
LevelParameter ==
    [log_A |-> None, log_B |-> Some("Error"), log_user |-> Some("Info"),
     log_simply |-> None, log_boxed |-> None]

\* the attribute each macro-wrapped unit is declared with
LogAt(l) == <<List("log", <<NameValue("level", l)>>)>>

Attribute ==
    [gen_log |-> <<Word("log")>>,
     gen_logB |-> LogAt("warn"),
     gen_user |-> LogAt("info"),
     gen_option |-> LogAt("debug"),
     gen_silent |-> <<Word("ignore")>>,
     gen_boxed |-> <<Word("log")>>,
     gen_ignore |-> <<Word("ignore")>>,
     chain_log |-> <<Word("log")>>,
     chain_error |-> LogAt("error"),
     chain_silent |-> LogAt("silent"),
     chain_ignore |-> <<Word("ignore")>>]

\* the level, or style, the macro expands the unit with
LevelOf(u, fn_ret) == gen_sysfail(Attribute[u], fn_ret).unit.level
StyleOf(u, fn_ret) == chain_sysfail(Attribute[u], fn_ret).unit.style

Units ==
    [gen_log |-> GenUnit(LevelOf("gen_log", "Result"), "Result", {ErrX, ErrY}),
     gen_logB |-> GenUnit(LevelOf("gen_logB", "Result"), "Result", {ErrX}),
     gen_user |-> GenUnit(LevelOf("gen_user", "Result"), "Result", {ErrZero, ErrOnce}),
     gen_option |-> GenUnit(LevelOf("gen_option", "Option"), "Option", {}),
     gen_silent |-> GenUnit(LevelOf("gen_silent", "Result"), "Result", {ErrX}),
     gen_quick |-> GenUnit(gen_quick_sysfail("none").unit.level, "Option", {}),
     gen_boxed |-> GenUnit(LevelOf("gen_boxed", "Result"), "Result", {ErrIo, ErrParse}),
     gen_ignore |-> GenUnit(LevelOf("gen_ignore", "Option"), "Option", {}),
     chain_quick |-> ChainUnit(chain_quick_sysfail("none").unit.style, "Option", {}),
     chain_log |-> ChainUnit(StyleOf("chain_log", "Result"), "Result", {ErrX}),
     chain_error |-> ChainUnit(StyleOf("chain_error", "Option"), "Option", {}),
     chain_silent |-> ChainUnit(StyleOf("chain_silent", "Result"), "Result", {ErrX}),
     chain_ignore |-> ChainUnit(StyleOf("chain_ignore", "Option"), "Option", {}),
     log_A |-> FailureUnit(Log(LevelParameter.log_A), {ErrX, ErrY}),
     log_B |-> FailureUnit(Log(LevelParameter.log_B), {ErrX}),
     log_user |-> FailureUnit(Log(LevelParameter.log_user), {ErrZero, ErrOnce}),
     log_simply |-> FailureUnit(LogSimply(LevelParameter.log_simply), {ErrX}),
     log_boxed |-> FailureUnit(Log(LevelParameter.log_boxed), {ErrIo, ErrParse}),
     emit |-> FailureUnit([kind |-> "Emit"], {UserErr("E42", 0), UserErr("E7", 0)}),
     ignore |-> FailureUnit([kind |-> "Ignore"], {ErrX})]

UnitNames == DOMAIN Units

\* what the body of the unit can return
BodyResults(u) ==
    IF Units[u].ret = "Option" THEN {SomeUnit, NoneUnit}
    ELSE {Ok} \cup {Err(e) : e \in Units[u].errs}

\* the auxiliary parameters the wrapped unit asks the scheduler for
Params(u) ==
    CASE Units[u].wrapper = "gen" -> extra_params(Units[u].level)
      [] Units[u].wrapper = "chain" -> handler_inputs(Units[u].style)
      [] Units[u].wrapper = "failure" -> Failure_Param(Units[u].ft)

CacheParams == {"LoggedErrorsParam", "Local<HashMap>"}
ClockParams == {"TimeParam", "Res<Time>", "SRes<Time>"}

\* one cache for the whole app (mutation of LocalOf)
LocalOf_global(u) == "app"

\* Local<T>: state owned by the one system that declares the parameter
LocalOf(u) == u

\* the apps the model explores: the systems added, and the sink's LevelFilter
Apps ==
    {[systems |-> {"gen_log", "gen_logB"}, filter |-> "Trace"],
     [systems |-> {"gen_user"}, filter |-> "Trace"],
     [systems |-> {"gen_option", "gen_quick"}, filter |-> "Trace"],
     [systems |-> {"gen_silent", "chain_silent"}, filter |-> "Trace"],
     [systems |-> {"chain_log", "chain_ignore"}, filter |-> "Trace"],
     [systems |-> {"chain_error"}, filter |-> "Trace"],
     [systems |-> {"log_A", "log_B"}, filter |-> "Trace"],
     [systems |-> {"log_A"}, filter |-> "Error"],
     [systems |-> {"log_user"}, filter |-> "Info"],
     [systems |-> {"emit", "ignore"}, filter |-> "Info"],
     [systems |-> {"log_simply"}, filter |-> "Warn"],
     [systems |-> {"gen_boxed", "log_boxed"}, filter |-> "Trace"],
     [systems |-> {"gen_quick", "gen_ignore", "chain_quick"}, filter |-> "Trace"]}

----------------------------------------------------------------------------
(* Macro expansion: the attributes and functions the model expands *)

MacroIdle == [which |-> "none"]

Metas ==
    {Word("log"), Word("ignore"), Word("retry"), List("emit", <<Bare("channel")>>),
     List("log", <<NameValue("level", "loud")>>),
     List("log", <<NameValue("colour", "warn")>>),
     List("log", <<Bare("level")>>),
     List("log", <<NameValue("level", "warn"), NameValue("level", "silent")>>)}
    \cup {List("log", <<NameValue("level", l)>>) : l \in LevelWords}

Attrs == UNION {[1..n -> Metas] : n \in 0..MaxMetas}

\* the declared return type of the function under the attribute
FnRets == {"none", "Result", "Option"}

Pending == [kind |-> "pending"]

MacroInputs ==
    {[which |-> "sysfail", attr |-> a, fn_ret |-> r, outcome |-> Pending] :
        a \in Attrs \ {<<>>}, r \in FnRets}
    \cup {[which |-> "chain_sysfail", attr |-> a, fn_ret |-> r, outcome |-> Pending] :
        a \in Attrs, r \in FnRets}
    \cup {[which |-> w, attr |-> <<>>, fn_ret |-> r, outcome |-> Pending] :
        w \in {"quick_sysfail", "chain_quick_sysfail"}, r \in FnRets}

----------------------------------------------------------------------------
(* State machine *)

Init ==
    /\ app \in Apps
    /\ now = 0
    /\ logged = [l \in {LocalOf(u) : u \in {v \in app.systems : Params(v) \cap CacheParams # {}}}
                   |-> EmptyMap]
    /\ sink = <<>>
    /\ events = <<>>
    /\ crashed = FALSE
    /\ trace = <<>>
    /\ macro = MacroIdle

CacheOf(u) == IF LocalOf(u) \in DOMAIN logged THEN logged[LocalOf(u)] ELSE EmptyMap

Tag(u, out) == [i \in 1..Len(out) |-> [unit |-> u] @@ out[i]]

\* one invocation of unit u whose body returned r, with the effect eff of the
\* generated handling
Invoked(u, r, eff) ==
    /\ logged' = IF LocalOf(u) \in DOMAIN logged
                 THEN [logged EXCEPT ![LocalOf(u)] = eff.logged]
                 ELSE logged
    /\ sink' = sink \o Tag(u, eff.out)
    /\ events' = events \o eff.ev
    /\ crashed' = eff.panic
    /\ trace' = Append(trace, [unit |-> u, res |-> r, time |-> now,
                               status |-> IF eff.panic THEN "panicked" ELSE "returned",
                               bodyRuns |-> 1, handed |-> eff.handed,
                               notified |-> Len(eff.out) + Len(eff.ev),
                               ops |-> eff.ops])
    /\ UNCHANGED <<app, now, macro>>

\* a system returning Result<(), F> for a Failure type F: on Err(err) the
\* wrapper calls err.handle_error(params, Some(&CALLSITE)); `?` converts with From
failure_body(ft, result, time, logged_map, event_writer, filter) ==
    IF result.tag = "Err"
    THEN [handed |-> Some(result.err)]
         @@ handle_error(ft, Failure_from(ft, result.err), time, logged_map,
                         event_writer, Some("CALLSITE"), filter)
    ELSE [logged |-> logged_map, out |-> <<>>, ev |-> <<>>, panic |-> FALSE,
          ops |-> 0, handed |-> None]

\* what the generated function of unit u does with the body's result
Handling(u, result, time, logged_map, event_writer, filter) ==
    CASE Units[u].wrapper = "gen" ->
            [ev |-> <<>>] @@ log_error(Units[u].level, result, time, logged_map)
      [] Units[u].wrapper = "chain" ->
            [ev |-> <<>>] @@ handler_body(Units[u].style, result, time, logged_map)
      [] Units[u].wrapper = "failure" ->
            failure_body(Units[u].ft, result, time, logged_map, event_writer, filter)

CanInvoke(u, w) ==
    /\ ~crashed
    /\ Len(trace) < MaxCalls
    /\ u \in app.systems
    /\ Units[u].wrapper = w

\* generate.rs sysfail_inner: let result = inner_system(); #log_error
InvokeGen ==
    \E u \in UnitNames : \E r \in BodyResults(u) :
        /\ CanInvoke(u, "gen")
        /\ Invoked(u, r, Handling(u, r, now, CacheOf(u), events, app.filter))

\* macros_impl/src/lib.rs impl_sysfail: let result = original_system(); #chain_body
InvokeChain ==
    \E u \in UnitNames : \E r \in BodyResults(u) :
        /\ CanInvoke(u, "chain")
        /\ Invoked(u, r, Handling(u, r, now, CacheOf(u), events, app.filter))

\* a system whose return type is a Failure type (Log, LogSimply, Emit, Ignore)
InvokeFailure ==
    \E u \in UnitNames : \E r \in BodyResults(u) :
        /\ CanInvoke(u, "failure")
        /\ Invoked(u, r, Handling(u, r, now, CacheOf(u), events, app.filter))

\* the scheduler starts the next frame: Time advances
Tick ==
    \E d \in FrameDeltas :
        /\ ~crashed
        /\ now + d <= MaxTime
        /\ now' = now + d
        /\ UNCHANGED <<app, logged, sink, events, crashed, trace, macro>>

Next == InvokeGen \/ InvokeChain \/ InvokeFailure \/ Tick

Spec == Init /\ [][Next]_vars

(* The macros at work: one attribute on one function is expanded *)

InitExpand ==
    /\ app = [systems |-> {}, filter |-> "Trace"]
    /\ now = 0
    /\ logged = <<>>
    /\ sink = <<>>
    /\ events = <<>>
    /\ crashed = FALSE
    /\ trace = <<>>
    /\ macro \in MacroInputs

Expanding(which) == macro.which = which /\ macro.outcome = Pending

ExpandSysfail ==
    /\ Expanding("sysfail")
    /\ macro' = [macro EXCEPT !.outcome = gen_sysfail(macro.attr, macro.fn_ret)]
    /\ UNCHANGED <<app, now, logged, sink, events, crashed, trace>>

ExpandQuickSysfail ==
    /\ Expanding("quick_sysfail")
    /\ macro' = [macro EXCEPT !.outcome = gen_quick_sysfail(macro.fn_ret)]
    /\ UNCHANGED <<app, now, logged, sink, events, crashed, trace>>

ExpandChainSysfail ==
    /\ Expanding("chain_sysfail")
    /\ macro' = [macro EXCEPT !.outcome = chain_sysfail(macro.attr, macro.fn_ret)]
    /\ UNCHANGED <<app, now, logged, sink, events, crashed, trace>>

ExpandChainQuickSysfail ==
    /\ Expanding("chain_quick_sysfail")
    /\ macro' = [macro EXCEPT !.outcome = chain_quick_sysfail(macro.fn_ret)]
    /\ UNCHANGED <<app, now, logged, sink, events, crashed, trace>>

NextExpand ==
    \/ ExpandSysfail
    \/ ExpandQuickSysfail
    \/ ExpandChainSysfail
    \/ ExpandChainQuickSysfail

SpecExpand == InitExpand /\ [][NextExpand]_vars


----------------------------------------------------------------------------
(* Vocabulary of the properties *)

\* the body signalled a declared failure
Failed(ev) == ev.res.tag \in {"Err", "None"}

\* units whose failures go through Failure::get_error or Log::handle_error
DedupPath(u) ==
    \/ Units[u].wrapper = "gen" /\ Units[u].level \notin {"Silent", "Quick"}
    \/ Units[u].wrapper = "failure" /\ Units[u].ft.kind = "Log"

\* units under a deduplicating log policy, of any generation
DedupLog(u) ==
    \/ DedupPath(u)
    \/ Units[u].wrapper = "chain" /\ ~IsSilentStyle(Units[u].style)

\* the sink's LevelFilter lets the unit's level through (Log and LogSimply test
\* it before they dispatch)
Audible(u) ==
    Units[u].wrapper = "failure" /\ Units[u].ft.kind \in {"Log", "LogSimply"}
        => LevelEnabled(Units[u].ft.lvl, app.filter)

\* the error a failed invocation produced
ErrorOf(ev) == IF ev.res.tag = "Err" THEN ev.res.err ELSE StrErr(NoneMsg)
IdentityOf(ev) == FailureMode_identify(ErrorOf(ev))
CooldownOf(ev) == FailureMode_cooldown(ErrorOf(ev))

\* the indices of the failures of unit u with identity id before invocation i
EarlierSame(i) ==
    {j \in 1..(i - 1) : /\ trace[j].unit = trace[i].unit
                        /\ Failed(trace[j])
                        /\ IdentityOf(trace[j]) = IdentityOf(trace[i])}

Max(S) == CHOOSE x \in S : \A y \in S : y <= x

\* the failures of unit u, in order
RECURSIVE FailuresOf(_, _)
FailuresOf(u, n) ==
    IF n = 0 THEN <<>>
    ELSE IF trace[n].unit = u /\ Failed(trace[n])
         THEN Append(FailuresOf(u, n - 1), trace[n])
         ELSE FailuresOf(u, n - 1)

----------------------------------------------------------------------------
(* C1: cooldown suppression.  If a failure with identity id was notified at
   t0, the next failure with the same id on the same unit, at t1, is not
   notified when t1 < t0 + c and is notified when t1 >= t0 + c (c the
   error's cooldown), on the Failure::get_error and Log::handle_error paths. *)
C1_CooldownSuppression ==
    \A i \in 1..Len(trace) :
        LET ev == trace[i] IN
        (DedupPath(ev.unit) /\ Failed(ev) /\ EarlierSame(i) # {}
            /\ trace[Max(EarlierSame(i))].notified > 0
            /\ Audible(ev.unit))
        => LET t0 == trace[Max(EarlierSame(i))].time
               c == CooldownOf(ev)
           IN /\ ev.time < t0 + c => ev.notified = 0
              /\ ev.time >= t0 + c => ev.notified > 0

(* C2: zero cooldown.  When the error's cooldown() is Duration::ZERO every
   failure of the wrapped unit is notified, whatever the timestamps. *)
C2_ZeroCooldownAlwaysNotifies ==
    \A i \in 1..Len(trace) :
        LET ev == trace[i] IN
        (DedupPath(ev.unit) /\ Failed(ev) /\ CooldownOf(ev) = 0
            /\ Audible(ev.unit))
        => ev.notified > 0

(* C3: Scenario A.  On one unit under the deduplicating log policy, identity
   "X" with cooldown 1000 ms (10 ticks): failures at t = 0, 500 ms and
   1200 ms are notified at t = 0 and t = 1200 ms and not at t = 500 ms. *)
C3_ScenarioA ==
    \A u \in app.systems :
        LET fs == FailuresOf(u, Len(trace)) IN
        (/\ DedupLog(u) /\ Audible(u)
         /\ Len(fs) = 3
         /\ \A k \in 1..3 : ErrorOf(fs[k]) = ErrX /\ CooldownOf(fs[k]) = 10
         /\ <<fs[1].time, fs[2].time, fs[3].time>> = <<0, 5, 12>>)
        => /\ fs[1].notified > 0
           /\ fs[2].notified = 0
           /\ fs[3].notified > 0

----------------------------------------------------------------------------
(* Replaying a history through the unit's generated handling, from an empty
   cache: what the unit would have decided had it seen only these invocations *)

RECURSIVE Replay(_, _, _)
Replay(u, evs, n) ==
    IF n = 0 THEN [cache |-> EmptyMap, notes |-> <<>>]
    ELSE LET before == Replay(u, evs, n - 1)
             eff == Handling(u, evs[n].res, evs[n].time, before.cache, <<>>, app.filter)
         IN [cache |-> eff.logged,
             notes |-> Append(before.notes, <<Len(eff.out), eff.panic>>)]

\* what the history recorded for the same invocations
Recorded(evs) ==
    [k \in 1..Len(evs) |-> <<evs[k].notified, evs[k].status = "panicked">>]

\* the invocations of unit u, in order
RECURSIVE InvocationsOf(_, _)
InvocationsOf(u, n) ==
    IF n = 0 THEN <<>>
    ELSE IF trace[n].unit = u
         THEN Append(InvocationsOf(u, n - 1), trace[n])
         ELSE InvocationsOf(u, n - 1)

\* the identity of the failure payload the handling was given
HandedIdentity(ev) == FailureMode_identify(ev.handed.val)

\* the invocations of unit u that handed the policy a failure with identity id
RECURSIVE FailuresWith(_, _, _)
FailuresWith(u, id, n) ==
    IF n = 0 THEN <<>>
    ELSE IF trace[n].unit = u /\ trace[n].handed.some /\ HandedIdentity(trace[n]) = id
         THEN Append(FailuresWith(u, id, n - 1), trace[n])
         ELSE FailuresWith(u, id, n - 1)

IdentitiesSeen(u) ==
    {HandedIdentity(trace[i]) :
        i \in {j \in 1..Len(trace) : trace[j].unit = u /\ trace[j].handed.some}}

(* C4: identity partition.  Within one unit's cache the notify decision for a
   failure with identity a depends only on the earlier failures with identity
   a: the decisions recorded for the a-failures, and the timestamp stored for
   a, are those the unit makes when it sees the a-failures alone; failures
   with another identity, at any timestamp, change neither. *)
C4_IdentityPartition ==
    \A u \in app.systems : DedupLog(u) =>
        \A a \in IdentitiesSeen(u) :
            LET evs == FailuresWith(u, a, Len(trace))
                alone == Replay(u, evs, Len(evs))
            IN /\ alone.notes = Recorded(evs)
               /\ HashMap_get(alone.cache, a) = HashMap_get(CacheOf(u), a)

\* a unit failed with X, then with Y at the same timestamp, then with X again,
\* and the second X was decided (here: logged) from the first X alone
C4_Witness ==
    /\ Len(trace) = 3
    /\ trace[1].unit = trace[2].unit /\ trace[2].unit = trace[3].unit
    /\ DedupLog(trace[1].unit)
    /\ trace[1].res = Err(ErrX) /\ trace[2].res = Err(ErrY) /\ trace[3].res = Err(ErrX)
    /\ trace[1].time = trace[2].time
    /\ trace[2].notified = 1
    /\ trace[3].time = 5 /\ trace[3].notified = 1
    /\ CacheOf(trace[1].unit) = [X |-> 5, Y |-> trace[1].time]

----------------------------------------------------------------------------
\* the step is an invocation of a wrapped unit; Last is its record afterwards
IsInvocation == Len(trace') = Len(trace) + 1
Last == trace[Len(trace)]

(* C5: success path purity.  An invocation whose body succeeds (Ok(()) of a
   Result<(), E>, Some(()) of an Option<()>) leaves the deduplication cache
   unchanged and invokes no notification action. *)
C5_SuccessPathPurity ==
    [][IsInvocation /\ Last'.res.tag \in {"Ok", "Some"}
          => logged' = logged /\ sink' = sink /\ events' = events]_vars

----------------------------------------------------------------------------
\* units wrapped with a silent policy: sysfail(ignore), log(level = "silent"),
\* quick_sysfail, the Ignore failure type
SilentPolicy(u) ==
    \/ Units[u].wrapper = "gen" /\ Units[u].level \in {"Silent", "Quick"}
    \/ Units[u].wrapper = "chain"
          /\ (Units[u].style.kind = "Ignore" \/ Units[u].style.set_level = Some("Silent"))
    \/ Units[u].wrapper = "failure" /\ Units[u].ft.kind = "Ignore"

(* C6: silent bypass.  A unit wrapped with a silent policy requests no clock
   and no cache, and whatever its invocations and their outcomes it never
   reads or writes a deduplication cache and never notifies. *)
C6_SilentBypass ==
    \A u \in app.systems : SilentPolicy(u) =>
        /\ Params(u) \cap (CacheParams \cup ClockParams) = {}
        /\ LocalOf(u) \notin DOMAIN logged
        /\ \A i \in 1..Len(trace) :
              trace[i].unit = u => trace[i].ops = 0 /\ trace[i].notified = 0
        /\ \A k \in 1..Len(sink) : sink[k].unit # u

\* a silent unit failed twice, at different times, and nothing was notified
C6_Witness ==
    \E i, j \in 1..Len(trace) :
        /\ i < j
        /\ trace[i].unit = trace[j].unit /\ SilentPolicy(trace[i].unit)
        /\ Failed(trace[i]) /\ Failed(trace[j])
        /\ trace[i].time < trace[j].time
        /\ sink = <<>> /\ events = <<>>

(* C7: per-unit caches.  Each wrapped unit owns its deduplication cache: under
   any interleaving with the other units of the app, the decisions of a unit
   and the contents of its cache are those of the unit running alone; and when
   two units fail for the first time with the same identity at the same
   instant, both notify. *)
C7_PerUnitCaches ==
    /\ \A u \in app.systems : DedupLog(u) =>
          LET evs == InvocationsOf(u, Len(trace))
              alone == Replay(u, evs, Len(evs))
          IN /\ alone.notes = Recorded(evs)
             /\ alone.cache = CacheOf(u)
    /\ \A i, j \in 1..Len(trace) :
          (/\ i < j
           /\ trace[i].unit # trace[j].unit
           /\ DedupLog(trace[i].unit) /\ DedupLog(trace[j].unit)
           /\ Audible(trace[i].unit) /\ Audible(trace[j].unit)
           /\ Failed(trace[i]) /\ Failed(trace[j])
           /\ IdentityOf(trace[i]) = IdentityOf(trace[j])
           /\ trace[i].time = trace[j].time
           /\ EarlierSame(i) = {} /\ EarlierSame(j) = {})
          => trace[i].notified = 1 /\ trace[j].notified = 1

\* Scenario B: units A and B failed with "X" at the same instant; both
\* notified, and each cache holds its own entry
C7_Witness ==
    /\ Len(trace) >= 2
    /\ trace[1].unit # trace[2].unit
    /\ DedupLog(trace[1].unit) /\ DedupLog(trace[2].unit)
    /\ trace[1].res = Err(ErrX) /\ trace[2].res = Err(ErrX)
    /\ trace[1].time = 5 /\ trace[2].time = 5
    /\ trace[1].notified = 1 /\ trace[2].notified = 1
    /\ logged[LocalOf(trace[1].unit)] = [X |-> 5]
    /\ logged[LocalOf(trace[2].unit)] = [X |-> 5]

----------------------------------------------------------------------------
IsEmit(u) == Units[u].wrapper = "failure" /\ Units[u].ft.kind = "Emit"

\* the error values the Emit units' bodies returned, in order
RECURSIVE EmitFailures(_)
EmitFailures(n) ==
    IF n = 0 THEN <<>>
    ELSE IF IsEmit(trace[n].unit) /\ trace[n].res.tag = "Err"
         THEN Append(EmitFailures(n - 1), trace[n].res.err)
         ELSE EmitFailures(n - 1)

(* C8: Emit.  Every failure handled by Emit<E> is sent once on the event
   channel, as the value the body returned, whatever the time and the earlier
   failures; no deduplication cache is consulted or modified. *)
C8_EmitForwardsEveryFailure ==
    /\ events = EmitFailures(Len(trace))
    /\ \A i \in 1..Len(trace) : IsEmit(trace[i].unit) =>
          /\ trace[i].ops = 0
          /\ trace[i].notified = (IF trace[i].res.tag = "Err" THEN 1 ELSE 0)
    /\ \A u \in app.systems : IsEmit(u) =>
          /\ Params(u) \cap (CacheParams \cup ClockParams) = {}
          /\ LocalOf(u) \notin DOMAIN logged

\* the same value failed twice at the same instant and both were sent
C8_Witness ==
    \E i, j \in 1..Len(trace) :
        /\ i < j
        /\ IsEmit(trace[i].unit) /\ IsEmit(trace[j].unit)
        /\ trace[i].res = Err(UserErr("E42", 0)) /\ trace[j].res = trace[i].res
        /\ trace[i].time = trace[j].time
        /\ Len(events) >= 2
        /\ events[1] = UserErr("E42", 0) /\ events[2] = UserErr("E42", 0)

(* C9: absence failure (Scenario D).  When the body of an Option<()> unit
   returns None, the payload handed to the policy is the fixed message
   "A none value", never an empty or missing payload, and its identity is
   that same string. *)
C9_AbsenceFailure ==
    \A i \in 1..Len(trace) :
        LET ev == trace[i] IN
        (ev.res.tag = "None" /\ ~SilentPolicy(ev.unit)) =>
            /\ ev.handed.some
            /\ Display(ev.handed.val) = "A none value"
            /\ FailureMode_identify(ev.handed.val) = "A none value"
            /\ "A none value" \in DOMAIN CacheOf(ev.unit)
            /\ \A k \in 1..Len(sink) : sink[k].unit = ev.unit => sink[k].msg = "A none value"

\* a None was notified
C9_Witness ==
    /\ Len(trace) >= 1
    /\ Last.res.tag = "None"
    /\ Last.notified = 1
    /\ Len(sink) >= 1
    /\ sink[Len(sink)] = [unit |-> Last.unit, level |-> "Debug", msg |-> "A none value"]

(* C10: declared failures never escape.  For every policy and every body
   outcome, one invocation of the wrapped unit runs the original body exactly
   once, then the policy handling, and completes normally returning no value. *)
C10_NeverEscapes ==
    /\ ~crashed
    /\ \A i \in 1..Len(trace) :
          /\ trace[i].bodyRuns = 1
          /\ trace[i].status = "returned"

----------------------------------------------------------------------------
(* Vocabulary of the claims about configuration *)

Expanded == macro.which # "none" /\ macro.outcome.kind = "expanded"
Rejected == macro.which # "none" /\ macro.outcome.kind \in {"error", "panic"}

\* the items between the parentheses of a meta item, none for a word
ItemsOf(meta) == IF meta.list.some THEN meta.list.val ELSE <<>>

UnknownPolicy(attr) ==
    \E i \in 1..Len(attr) : attr[i].path \notin {"log", "ignore", "emit"}
UnknownLogOption(attr) ==
    \E i \in 1..Len(attr) : /\ attr[i].path = "log"
                            /\ \E k \in 1..Len(ItemsOf(attr[i])) :
                                  ItemsOf(attr[i])[k].path # "level"
UnknownLevel(attr) ==
    \E i \in 1..Len(attr) : /\ attr[i].path = "log"
                            /\ \E k \in 1..Len(ItemsOf(attr[i])) :
                                  LET item == ItemsOf(attr[i])[k] IN
                                  /\ item.path = "level" /\ item.value.some
                                  /\ item.value.val \notin LevelWords
MissingPolicy(attr) == Len(attr) = 0
DoublePolicy(attr) == Len(attr) >= 2

ConfigurationError(attr) ==
    \/ UnknownPolicy(attr) \/ UnknownLogOption(attr) \/ UnknownLevel(attr)
    \/ MissingPolicy(attr) \/ DoublePolicy(attr)

\* C11: an attribute with an unknown policy name, an unknown option inside
\* log(...), an unknown level string, no policy or two policies is rejected by
\* the macro with an error: the expansion never produces a wrapped unit for it.
C11_ConfigurationErrorsRejected ==
    (macro.which \in {"sysfail", "chain_sysfail"} /\ macro.outcome # Pending
        /\ ConfigurationError(macro.attr))
    => Rejected

----------------------------------------------------------------------------
(* Vocabulary of the claims about the selected policy *)

\* the unit is declared with this attribute
DeclaredWith(u, attr) == u \in DOMAIN Attribute /\ Attribute[u] = attr

\* units selected with `ignore` (attribute, or the Failure type Ignore)
SelectsIgnore(u) ==
    \/ DeclaredWith(u, <<Word("ignore")>>)
    \/ Units[u].wrapper = "failure" /\ Units[u].ft.kind = "Ignore"

\* units selected with `log` and no level (attribute, or Log<T>)
SelectsLog(u) ==
    \/ DeclaredWith(u, <<Word("log")>>)
    \/ /\ Units[u].wrapper = "failure" /\ Units[u].ft.kind = "Log"
       /\ ~LevelParameter[u].some

\* the severity the sink has to see for level word l
LevelNamed(l) ==
    CASE l = "trace" -> "Trace"
      [] l = "debug" -> "Debug"
      [] l = "info" -> "Info"
      [] l = "warn" -> "Warn"
      [] l = "error" -> "Error"

LoudLevelWords == LevelWords \ {"silent"}

\* units selected with log(level = l) (attribute, or Log<T, Lvl>)
SelectsLogAt(u, l) ==
    \/ DeclaredWith(u, LogAt(l))
    \/ /\ Units[u].wrapper = "failure" /\ Units[u].ft.kind = "Log"
       /\ LevelParameter[u] = Some(LevelNamed(l))

\* the notifications of unit u that reached the log sink
RECURSIVE SinkOf(_, _)
SinkOf(u, n) ==
    IF n = 0 THEN <<>>
    ELSE IF sink[n].unit = u THEN Append(SinkOf(u, n - 1), sink[n])
         ELSE SinkOf(u, n - 1)

\* the unit keeps a deduplication cache, and every failure handed to the
\* policy is looked up and recorded in it
Deduplicated(u) ==
    /\ Params(u) \cap CacheParams # {}
    /\ LocalOf(u) \in DOMAIN logged
    /\ \A i \in 1..Len(trace) :
          (trace[i].unit = u /\ trace[i].handed.some) =>
              /\ trace[i].ops >= 1
              /\ FailureMode_identify(trace[i].handed.val) \in DOMAIN CacheOf(u)

\* the default severity of `log`: of the FnConfig, of the error type, of Log<T>
DefaultSeverity(u) ==
    CASE Units[u].wrapper = "gen" -> {FnConfig_new.level}
      [] Units[u].wrapper = "chain" -> {FailureMode_log_level(e) : e \in Units[u].errs}
      [] Units[u].wrapper = "failure" -> {Log(None).lvl}

(* C12: policy selection.  `ignore` selects a policy that never notifies;
   `log` selects deduplicated logging at the policy's default severity;
   log(level = L) selects deduplicated logging whose every notification is
   emitted at exactly level L, for L in trace, debug, info, warn, error; the
   Emit policy forwards the raw error to the event channel, without a cache. *)
C12_PolicySelection ==
    /\ \A l \in LoudLevelWords :
          /\ gen_sysfail(LogAt(l), "Result").kind = "expanded"
          /\ gen_sysfail(LogAt(l), "Result").unit.level = LevelNamed(l)
          /\ chain_sysfail(LogAt(l), "Result").kind = "expanded"
          /\ extra(chain_sysfail(LogAt(l), "Result").unit.style, "Warn") = LevelNamed(l)
    /\ \A u \in app.systems :
          /\ SelectsIgnore(u) =>
                /\ SinkOf(u, Len(sink)) = <<>>
                /\ \A i \in 1..Len(trace) : trace[i].unit = u => trace[i].notified = 0
          /\ SelectsLog(u) =>
                /\ Deduplicated(u)
                /\ \A k \in 1..Len(sink) :
                      sink[k].unit = u => sink[k].level \in DefaultSeverity(u)
          /\ \A l \in LoudLevelWords : SelectsLogAt(u, l) =>
                /\ Deduplicated(u)
                /\ \A k \in 1..Len(sink) :
                      sink[k].unit = u => sink[k].level = LevelNamed(l)
          /\ IsEmit(u) =>
                /\ ~(\E c \in CacheParams : c \in Params(u))
                /\ \A i \in 1..Len(trace) : trace[i].unit = u =>
                      /\ trace[i].ops = 0
                      /\ Failed(trace[i]) => trace[i].handed = Some(trace[i].res.err)
                /\ events = EmitFailures(Len(trace))

\* a log unit and a log(level = "warn") unit of one app both notified, each at
\* its level
C12_Witness ==
    /\ app.systems = {"gen_log", "gen_logB"}
    /\ \E j, k \in 1..Len(sink) :
          /\ sink[j].unit = "gen_log" /\ sink[j].level = "Error"
          /\ sink[k].unit = "gen_logB" /\ sink[k].level = "Warn"
    /\ "X" \in DOMAIN CacheOf("gen_log") /\ "X" \in DOMAIN CacheOf("gen_logB")

\* units selected with the log policy and no explicit level: #[sysfail(log)],
\* Log<T>, LogSimply<T>
NoExplicitLevel(u) ==
    \/ DeclaredWith(u, <<Word("log")>>)
    \/ /\ Units[u].wrapper = "failure" /\ Units[u].ft.kind \in {"Log", "LogSimply"}
       /\ ~LevelParameter[u].some

(* C13: default log level.  When the log policy is selected without an
   explicit level, every failure that is logged is logged at the Warn level. *)
C13_DefaultLevelWarn ==
    \A k \in 1..Len(sink) :
        NoExplicitLevel(sink[k].unit) => sink[k].level = "Warn"

----------------------------------------------------------------------------
(* Vocabulary of the claim about opaque errors *)

\* units whose error type is Box<dyn Error> (or anyhow::Error)
OpaqueErrors(u) == \A e \in Units[u].errs : e.ty = "boxed"
OpaqueUnit(u) == DedupLog(u) /\ Units[u].errs # {} /\ OpaqueErrors(u)

\* the same invocations, every failure carrying one and the same message
OneMessage(evs) ==
    [k \in 1..Len(evs) |->
        IF evs[k].res.tag = "Err"
        THEN [evs[k] EXCEPT !.res = Err(BoxErr("same"))]
        ELSE evs[k]]

(* C14: opaque errors collapse into one stream.  For a unit whose error type
   is Box<dyn Error> or anyhow::Error every failure has the identity (): the
   unit's cache never holds more than one entry, and the unit decides on its
   failures, whatever their messages, as it would had they all carried the
   same message. *)
C14_OpaqueErrorsOneStream ==
    \A u \in app.systems : OpaqueUnit(u) =>
        /\ \A i \in 1..Len(trace) :
              (trace[i].unit = u /\ Failed(trace[i])) =>
                  /\ IdentityOf(trace[i]) = UnitId
                  /\ Dedup_identify(ErrorOf(trace[i])) = UnitId
        /\ DOMAIN CacheOf(u) \subseteq {UnitId}
        /\ Cardinality(DOMAIN CacheOf(u)) <= 1
        /\ LET evs == InvocationsOf(u, Len(trace)) IN
           /\ Recorded(evs) = Replay(u, OneMessage(evs), Len(evs)).notes
           /\ CacheOf(u) = Replay(u, OneMessage(evs), Len(evs)).cache

\* "io" failed at 0 and was notified; "parse" failed 1.2 s later and met the
\* entry "io" had left: one entry in the cache, and no notification
C14_Witness ==
    /\ Len(trace) = 2
    /\ trace[1].unit = "gen_boxed" /\ trace[2].unit = "gen_boxed"
    /\ trace[1].res = Err(ErrIo) /\ trace[1].time = 0 /\ trace[1].notified = 1
    /\ trace[2].res = Err(ErrParse) /\ trace[2].time = 12 /\ trace[2].notified = 0
    /\ CacheOf("gen_boxed") = [k \in {UnitId} |-> 12]

----------------------------------------------------------------------------
(* Vocabulary of the claim about quick_sysfail *)

\* each #[quick_sysfail] unit and the #[sysfail(ignore)] unit with the same
\* body, written with -> Option<()> and a last Some(())
IgnoreTwin == [gen_quick |-> "gen_ignore", chain_quick |-> "chain_ignore"]
QuickUnits == DOMAIN IgnoreTwin

\* what the wrapped unit is to the scheduler and to its body: parameters asked
\* for, return type of the closure the body is moved into
Interface(unit) == [params |-> unit.params, ret |-> unit.ret]

(* C15: quick_sysfail equivalence.  A unit under #[quick_sysfail] behaves on
   every invocation as the same body under #[sysfail(ignore)] with return type
   Option<()> and a last Some(()): the same body outcomes, no parameter added,
   no cache access and no notification, whether the body runs to its end or
   leaves early with None. *)
C15_QuickSysfailEquivalence ==
    /\ Interface(gen_quick_sysfail("none").unit)
          = Interface(gen_sysfail(<<Word("ignore")>>, "Option").unit)
    /\ Interface(chain_quick_sysfail("none").unit)
          = Interface(chain_sysfail(<<Word("ignore")>>, "Option").unit)
    /\ \A q \in QuickUnits :
          /\ BodyResults(q) = BodyResults(IgnoreTwin[q])
          /\ Params(q) = {} /\ Params(IgnoreTwin[q]) = {}
          /\ q \in app.systems =>
                /\ LocalOf(q) \notin DOMAIN logged
                /\ SinkOf(q, Len(sink)) = <<>>
    /\ \A i \in 1..Len(trace) : trace[i].unit \in QuickUnits =>
          LET ev == trace[i]
              twin == Handling(IgnoreTwin[ev.unit], ev.res, ev.time,
                               CacheOf(IgnoreTwin[ev.unit]), <<>>, app.filter)
          IN /\ ev.bodyRuns = 1
             /\ ev.notified = Len(twin.out) + Len(twin.ev)
             /\ ev.ops = twin.ops
             /\ ev.handed = twin.handed
             /\ (ev.status = "panicked") = twin.panic
             /\ ev.notified = 0 /\ ev.ops = 0

\* a quick_sysfail unit ran to its end and left early, its ignore twin did
\* both as well, and nothing was notified
C15_Witness ==
    /\ Len(trace) = 3
    /\ trace[1].unit = "gen_quick" /\ trace[1].res = NoneUnit
    /\ trace[2].unit = "gen_ignore" /\ trace[2].res = NoneUnit
    /\ trace[3].unit = "gen_quick" /\ trace[3].res = SomeUnit
    /\ \A i \in 1..3 : trace[i].notified = 0 /\ trace[i].status = "returned"
    /\ sink = <<>> /\ logged = <<>>

----------------------------------------------------------------------------
(* Vocabulary of the claim about the contents of the cache *)

\* the invocations of unit u on which a failure with identity id occurred
OccurrencesOf(u, id) ==
    {i \in 1..Len(trace) : /\ trace[i].unit = u /\ Failed(trace[i])
                           /\ IdentityOf(trace[i]) = id}

\* the identities of the failures that have occurred on unit u
IdentitiesOccurred(u) ==
    {IdentityOf(trace[i]) : i \in {j \in 1..Len(trace) : trace[j].unit = u /\ Failed(trace[j])}}

(* C16: the cache tracks the latest occurrence.  After any sequence of
   invocations of a unit under a deduplicating log policy, the keys of its
   cache are exactly the identities of the failures that have occurred, and
   each key maps to the timestamp of the most recent failure with that
   identity, notified or not; the keys only ever grow. *)
C16_CacheTracksLatest ==
    \A u \in app.systems : DedupLog(u) =>
        /\ DOMAIN CacheOf(u) = IdentitiesOccurred(u)
        /\ \A id \in IdentitiesOccurred(u) :
              /\ id \in DOMAIN CacheOf(u)
              /\ CacheOf(u)[id] = Max({trace[i].time : i \in OccurrencesOf(u, id)})

----------------------------------------------------------------------------
(* Vocabulary of the claim about the handler of ChainStyle::handler_body *)

\* units whose handler is the logging branch of ChainStyle::handler_body
ChainLog(u) == Units[u].wrapper = "chain" /\ ~IsSilentStyle(Units[u].style)

\* the earlier invocations of the same unit that left the cache entry the
\* handler finds for the failure of invocation i
EarlierHanded(i) ==
    {j \in 1..(i - 1) : /\ trace[j].unit = trace[i].unit
                        /\ trace[j].handed.some
                        /\ HandedIdentity(trace[j]) = HandedIdentity(trace[i])}

(* C17: throttle decision of the handler generated by
   ChainStyle::handler_body.  With now the current time, t_prev the timestamp
   the cache holds for the failure's identity and c the error's cooldown, the
   handler logs the failure iff there is no entry or now >= t_prev + c; this
   includes now = t_prev + c, and now < c where the subtraction saturates. *)
C17_HandlerBodyThrottle ==
    \A i \in 1..Len(trace) :
        LET ev == trace[i] IN
        (ChainLog(ev.unit) /\ ev.handed.some) =>
            LET c == FailureMode_cooldown(ev.handed.val)
                logs == \/ EarlierHanded(i) = {}
                        \/ ev.time >= trace[Max(EarlierHanded(i))].time + c
            IN (ev.notified > 0) <=> logs

----------------------------------------------------------------------------
(* Vocabulary of the claim about the number of notifications *)

\* what the deduplication check of unit u answers for result r, on the cache
\* and at the time of the invocation: show, suppress, or a panic inside the
\* check; policies without a check show
DedupVerdict(u, r) ==
    LET e == IF r.tag = "Err" THEN r.err ELSE StrErr(NoneMsg)
        last == HashMap_get(CacheOf(u), FailureMode_identify(e))
    IN CASE Units[u].wrapper = "gen" ->
                LET got == get_error(r, now, CacheOf(u)) IN
                IF got.panic THEN "panic"
                ELSE IF got.ret.some THEN "show" ELSE "suppress"
         [] Units[u].wrapper = "chain" ->
                IF ~last.some \/ show_again(last.val, now, FailureMode_cooldown(e))
                THEN "show" ELSE "suppress"
         [] Units[u].wrapper = "failure" /\ Units[u].ft.kind = "Log" ->
                IF ~last.some THEN "show"
                ELSE IF AddOverflows(last.val, Dedup_cooldown(e)) THEN "panic"
                ELSE IF now < last.val + Dedup_cooldown(e) THEN "show" ELSE "suppress"
         [] OTHER -> "show"

\* what reached the log sink and the event channel, counted together
Delivered == Len(sink) + Len(events)

\* an invocation handed exactly one notification over, that of its failure
OneDelivered(ev) ==
    /\ ev.notified = 1
    /\ Delivered' = Delivered + 1
    /\ IsEmit(ev.unit) => events' = Append(events, ev.res.err)
    /\ ~IsEmit(ev.unit) =>
          /\ Len(sink') = Len(sink) + 1
          /\ sink'[Len(sink')].unit = ev.unit
          /\ sink'[Len(sink')].msg = Display(ErrorOf(ev))

\* the body returned a declared failure, the policy is not silent and the
\* deduplication check answered "show"
Unsuppressed(ev) ==
    /\ Failed(ev) /\ ~SilentPolicy(ev.unit)
    /\ DedupVerdict(ev.unit, ev.res) = "show"

(* C18: one notification per un-suppressed failure.  No invocation of a
   wrapped unit hands more than one notification to the sink; and exactly one
   is handed over when the body returned a declared failure, the policy is
   not silent and the deduplication check did not suppress it. *)
C18_OneNotificationPerFailure ==
    [][IsInvocation =>
          /\ Last'.notified <= 1
          /\ Delivered' <= Delivered + 1
          /\ Unsuppressed(Last') => OneDelivered(Last')]_vars

(* C18, amended: no invocation hands more than one notification to the sink;
   exactly one is handed over when the body returned a declared failure, the
   policy is not silent, the deduplication check did not suppress it and the
   sink's current level filter enables the policy's level (Log and LogSimply
   test the filter themselves and dispatch nothing below it). *)
C18_OneNotificationWhenEnabled ==
    [][IsInvocation =>
          /\ Last'.notified <= 1
          /\ Delivered' <= Delivered + 1
          /\ (Unsuppressed(Last') /\ Audible(Last'.unit)) => OneDelivered(Last')]_vars

\* a failure was notified once, and the next one of the same unit, 1.2 s
\* later, was suppressed: one entry in the sink for two failures
C18_Witness ==
    /\ Len(trace) = 2
    /\ trace[1].unit = "log_A" /\ trace[2].unit = "log_A"
    /\ trace[1].res = Err(ErrX) /\ trace[1].time = 0 /\ trace[1].notified = 1
    /\ trace[2].res = Err(ErrX) /\ trace[2].time = 12 /\ trace[2].notified = 0
    /\ sink = <<[unit |-> "log_A", level |-> "Warn", msg |-> "X"]>>

====
